---- MODULE Spec2Model ----
(***************************************************************************)
(* A model of the two programs of the repository:                          *)
(*   source/stokes.py        stokes_solve (run by every MPI rank), with    *)
(*                           weak_form, Pi and dPi                         *)
(*   source/post_process.py  the per-time-step gather/plot loop            *)
(* Every rank is a process with a program counter.  MPI collectives are    *)
(* modelled by messages in flight: a non-root rank's gather returns once   *)
(* its contribution is handed to the library, the root's gather returns    *)
(* when every contribution has arrived; the root's broadcast returns once  *)
(* the value is handed over, a non-root rank's when it has arrived.        *)
(* Real numbers are modelled by integers and by exact fractions <<n, d>>.  *)
(***************************************************************************)
EXTENDS Integers, Sequences, FiniteSets, TLC

\* ---------------------------------------------------------------- bounds
MaxRanks == 2        \* comm.size ranges over 1..MaxRanks
MaxY     == 2        \* vertex heights (second coordinate) range over 1..MaxY
MaxMeas  == 1        \* boundary measures range over 0..MaxMeas
MaxRate  == 1        \* Vdot(lake_vol_0,t) ranges over -MaxRate..MaxRate
MaxUn    == 2        \* normal velocities / fluxes range over -MaxUn..MaxUn
NT       == 2        \* nt, the number of saved time steps

\* params.tol, in the integer units of the first coordinate
tol == 1

\* params.dim: '2D' or anything else (the code only tests dim != '2D')
Dims == {"2D", "3D"}

VARIABLES
    prog,       \* which program runs: "stokes", "post", or "form" (weak_form alone)
    size,       \* comm.size
    dim,        \* params.dim
    pc,         \* [rank -> position in the program]
    err,        \* [rank -> the uncaught exception that ended it, or "none"]
    comms,      \* [rank -> the sequence of explicit MPI calls it has issued]
    gatherBuf,  \* [rank -> contributions handed to gather, in flight to root 0]
    bcastBuf,   \* [rank -> values broadcast by root 0, in flight to the rank]
    W,          \* [rank -> the mixed element of its function space]
    mesh,       \* stokes: [rank -> mesh.coordinates() of its local mesh]
    M,          \* stokes: [rank -> the variable M]
    h0,         \* stokes: [rank -> the variable h0]
    meas,       \* stokes/form: [marker -> assemble(1*ds(marker))]
    zint,       \* stokes: assemble(z_expr*ds(4))
    rate,       \* stokes/form: Vdot(lake_vol_0,t)
    s_mean,     \* stokes: [rank -> the variable s_mean]
    Fw,         \* stokes/form: [rank -> the residual built by weak_form]
    w,          \* stokes/form: [rank -> the solution returned by solve]
    pen,        \* form: the last evaluation of Pi and dPi
    step,       \* post: [rank -> the loop variable i]
    fld,        \* post: [rank -> index of the next gather of the step]
    got,        \* post: [rank -> [field -> what comm.gather returned]]
    plotted     \* post: the calls of plot_fields, in order

vars == <<prog, size, dim, pc, err, comms, gatherBuf, bcastBuf, W, mesh, M, h0,
          meas, zint, rate, s_mean, Fw, w, pen, step, fld, got, plotted>>

commVars   == <<comms, gatherBuf, bcastBuf>>
stokesVars == <<mesh, M, h0, zint, s_mean>>
formVars   == <<meas, rate, Fw, w, pen>>
postVars   == <<step, fld, got, plotted>>

Ranks == 0 .. (size - 1)
NonRoot == Ranks \ {0}

\* ------------------------------------------------------------- arithmetic
Abs(x) == IF x < 0 THEN -x ELSE x

\* exact fractions <<numerator, denominator>>, denominator # 0
Frac(n, d) == <<n, d>>
FracEq(a, b) == a[1] * b[2] = b[1] * a[2]
FracAdd(a, b) == <<a[1] * b[2] + b[1] * a[2], a[2] * b[2]>>
FracScale(a, k) == <<a[1] * k, a[2]>>

RECURSIVE SeqMax(_)
SeqMax(s) == IF Len(s) = 1 THEN s[1]
             ELSE LET m == SeqMax(Tail(s)) IN IF s[1] >= m THEN s[1] ELSE m

\* the values a Python variable of the model can hold
Unbound == [tag |-> "unbound", val |-> 0]
None    == [tag |-> "None", val |-> 0]
Num(v)  == [tag |-> "num", val |-> v]

\* ------------------------------------------------------ stokes.py: Pi, dPi
\* un stands for dot(u,nu); un**2.0 + un*abs(un) is 0 or 2*un**2, so the
\* factor 0.5 is an exact halving
Pi(un) == (un * un + un * Abs(un)) \div 2

\* dPi without the absolute value: a penalty that also resists separation
dPiLinear(un) == un + un

dPi(un) == un + Abs(un)

\* --------------------------------------------------- stokes.py: weak_form
\* One term of the residual: an integrand times a test function, integrated
\* over the cells (region 0, dx) or over a boundary marker (region k, ds(k)).
\* The scalar factor of a boundary term is
\*   gl*g_lake + pw*pw + sig*sigma_0 + scale*(un*dot(u,nu) + vol + dpi*dPi(u,nu))
\* with vol an exact fraction; kind names the remaining shape of the term.
Term(kind, test, region, scale, gl, pwc, sig, un, vol, dpi) ==
    [kind |-> kind, test |-> test, region |-> region, scale |-> scale,
     gl |-> gl, pw |-> pwc, sig |-> sig, un |-> un, vol |-> vol, dpi |-> dpi]

Plain(kind, test, region) ==
    Term(kind, test, region, "1", 0, 0, 0, 0, Frac(0, 1), 0)

\* L0 taken over the ice-water boundary alone, as L1 is
L0Lake(ms) == ms[4]

\* lines 39-40
L0of(ms) == ms[4] + ms[3]
L1of(ms) == ms[4]

\* lines 43-51, in the order written
WeakFormBase(ms, vd) ==
    << Plain("2*eta(u)*inner(sym(grad(u)),sym(grad(v)))", "v", 0),
       Plain("-div(v)*p", "v", 0),
       Plain("q*div(u)", "q", 0),
       Plain("-inner(f,v)", "v", 0),
       Term("inner(nu,v)", "v", 4, "rho_w*g*dt", 1, 1, 0, 1, Frac(vd, L1of(ms)), 0),
       Term("qw", "qw", 4, "1", 0, 0, 0, 1, Frac(vd, L0of(ms)), 0),
       Term("inner(nu,v)", "v", 3, "rho_w*g*dt", 1, 1, -1, 1, Frac(vd, L1of(ms)), 0),
       Term("qw", "qw", 3, "1", 0, 0, 0, 1, Frac(vd, L0of(ms)), 0),
       Term("dot(v,nu)", "v", 3, "1/eps_p", 0, 0, 0, 0, Frac(0, 1), 1),
       Plain("C*inner(dot(T,u),dot(T,v))", "v", 3),
       Plain("g_cryo*inner(nu,v)", "v", 2),
       Plain("g_cryo*inner(nu,v)", "v", 1),
       Plain("-inner(dot(T,dot(sigma(u,p),nu)),dot(T,v))", "v", 1),
       Plain("-inner(dot(T,dot(sigma(u,p),nu)),dot(T,v))", "v", 2) >>

\* the side-wall terms added whatever dim is
WeakFormSideAlways(d) ==
    << Plain("g_cryo*inner(nu,v)", "v", 5), Plain("g_cryo*inner(nu,v)", "v", 6) >>

\* lines 53-54
WeakFormSide(d) ==
    IF d # "2D"
    THEN << Plain("g_cryo*inner(nu,v)", "v", 5), Plain("g_cryo*inner(nu,v)", "v", 6) >>
    ELSE << >>

weak_form(d, ms, vd) == WeakFormBase(ms, vd) \o WeakFormSide(d)

\* the terms of a residual tested with test function tf
TermsOf(F, tf) == SelectSeq(F, LAMBDA t : t.test = tf)

\* The residual of F against the constant test function qw = 1, for a velocity
\* whose normal flux over marker k is flux[k]: each term contributes
\* un * flux[region] + vol * measure(region).
RECURSIVE SumQw(_, _, _)
SumQw(ts, ms, flux) ==
    IF ts = << >> THEN Frac(0, 1)
    ELSE FracAdd(FracAdd(Frac(ts[1].un * flux[ts[1].region], 1),
                         FracScale(ts[1].vol, ms[ts[1].region])),
                 SumQw(Tail(ts), ms, flux))

QwResidual(F, ms, flux) == SumQw(TermsOf(F, "qw"), ms, flux)

\* the penalty traction the residual applies on marker k at normal velocity un,
\* in units of 1/eps_p
RECURSIVE SumPenalty(_, _, _)
SumPenalty(ts, k, un) ==
    IF ts = << >> THEN 0
    ELSE (IF ts[1].region = k THEN ts[1].dpi * dPi(un) ELSE 0)
         + SumPenalty(Tail(ts), k, un)

\* ------------------------------------------------ stokes.py: stokes_solve
P1 == [family |-> "P", degree |-> 1]
P2 == [family |-> "P", degree |-> 2]
R  == [family |-> "R", degree |-> 0]

\* MixedElement([[P2,...],P1,R]): the velocity components, pressure, real
MixedElement(vel, p, r) == [velocity |-> vel, pressure |-> p, real |-> r]

\* lines 63-69
StokesElement(d) ==
    IF d # "2D" THEN MixedElement(<<P2, P2, P2>>, P1, R)
    ELSE MixedElement(<<P2, P2>>, P1, R)

\* only the first array of the list (rank 0's) is kept
ConcatenateFirst(list) == IF list = << >> THEN << >> ELSE Head(list)

\* np.concatenate of a list of arrays (sequences of rows)
RECURSIVE Concatenate(_)
Concatenate(list) ==
    IF list = << >> THEN << >> ELSE Head(list) \o Concatenate(Tail(list))

\* M[:,1][np.abs(M[:,0])<tol], line 84
AxisHeights(rows) ==
    LET sel == SelectSeq(rows, LAMBDA v : Abs(v[1]) < tol)
    IN  [j \in 1 .. Len(sel) |-> sel[j][2]]

Array(rows) == [tag |-> "array", rows |-> rows]
List(items) == [tag |-> "list", rows |-> items]
NoArray     == [tag |-> "None", rows |-> << >>]

Fail(r, e) == /\ pc' = [pc EXCEPT ![r] = "failed"]
              /\ err' = [err EXCEPT ![r] = e]

Goto(r, l) == /\ pc' = [pc EXCEPT ![r] = l]
              /\ UNCHANGED err

\* an explicit MPI call: the collective, its root and the variable it is given
Call(op, arg, i) == [op |-> op, root |-> 0, arg |-> arg, i |-> i]

Issue(r, call) == comms' = [comms EXCEPT ![r] = Append(@, call)]

\* lines 63-80 and, on a non-root rank, 85-86: build W, take the local
\* coordinates and call comm.gather(M,root=0).  A non-root rank hands its
\* array over, gets None back and sets h0 = None; rank 0 waits.
StokesGather(r) ==
    /\ prog = "stokes" /\ pc[r] = "gather"
    /\ W' = [W EXCEPT ![r] = StokesElement(dim)]
    /\ Issue(r, Call("gather", "M", 0))
    /\ IF r = 0
       THEN /\ M' = [M EXCEPT ![r] = Array(mesh[r])]
            /\ Goto(r, "gather_wait")
            /\ UNCHANGED <<gatherBuf, h0>>
       ELSE /\ gatherBuf' = [gatherBuf EXCEPT ![r] = Append(@, mesh[r])]
            /\ M' = [M EXCEPT ![r] = NoArray]
            /\ h0' = [h0 EXCEPT ![r] = None]
            /\ Goto(r, "bcast")
    /\ UNCHANGED <<prog, size, dim, bcastBuf, mesh, zint, s_mean>>
    /\ UNCHANGED <<formVars, postVars>>

\* line 80 on rank 0: the gather returns the list of all ranks' arrays, in
\* rank order, once every contribution has arrived
StokesGatherReturn ==
    /\ prog = "stokes" /\ pc[0] = "gather_wait"
    /\ \A r \in NonRoot : gatherBuf[r] # << >>
    /\ M' = [M EXCEPT ![0] =
               List([j \in 1 .. size |->
                       IF j = 1 THEN M[0].rows ELSE Head(gatherBuf[j - 1])])]
    /\ gatherBuf' = [r \in Ranks |-> IF r = 0 THEN << >> ELSE Tail(gatherBuf[r])]
    /\ Goto(0, "reduce")
    /\ UNCHANGED <<prog, size, dim, comms, bcastBuf, W, mesh, h0, zint, s_mean>>
    /\ UNCHANGED <<formVars, postVars>>

\* a maximum with a default value for an empty selection
NpMaxDefault(hs) == IF hs = << >> THEN [ok |-> TRUE, val |-> 0]
                    ELSE [ok |-> TRUE, val |-> SeqMax(hs)]

\* np.max of the selected heights; np.max of an empty selection raises
\* ValueError
NpMax(hs) == IF hs = << >> THEN [ok |-> FALSE, val |-> 0]
             ELSE [ok |-> TRUE, val |-> SeqMax(hs)]

\* lines 82-84 on rank 0
StokesReduce ==
    /\ prog = "stokes" /\ pc[0] = "reduce"
    /\ LET all == Concatenate(M[0].rows)
           mx  == NpMax(AxisHeights(all))
       IN  /\ M' = [M EXCEPT ![0] = Array(all)]
           /\ IF mx.ok
              THEN /\ h0' = [h0 EXCEPT ![0] = Num(mx.val)]
                   /\ Goto(0, "bcast")
              ELSE /\ Fail(0, "ValueError")
                   /\ UNCHANGED h0
    /\ UNCHANGED <<prog, size, dim, commVars, W, mesh, zint, s_mean>>
    /\ UNCHANGED <<formVars, postVars>>

\* line 88: rank 0 hands h0 to every other rank and goes on; a non-root rank
\* enters the broadcast and waits
StokesBcast(r) ==
    /\ prog = "stokes" /\ pc[r] = "bcast"
    /\ Issue(r, Call("bcast", "h0", 0))
    /\ IF r = 0
       THEN /\ bcastBuf' = [q \in Ranks |->
                              IF q = 0 THEN bcastBuf[q] ELSE Append(bcastBuf[q], h0[0])]
            /\ Goto(r, "s_mean")
       ELSE /\ UNCHANGED bcastBuf
            /\ Goto(r, "bcast_wait")
    /\ UNCHANGED <<prog, size, dim, gatherBuf, W, stokesVars>>
    /\ UNCHANGED <<formVars, postVars>>

\* line 88 on a non-root rank: the broadcast returns the root's value
StokesBcastReturn(r) ==
    /\ prog = "stokes" /\ r # 0 /\ pc[r] = "bcast_wait"
    /\ bcastBuf[r] # << >>
    /\ h0' = [h0 EXCEPT ![r] = Head(bcastBuf[r])]
    /\ bcastBuf' = [bcastBuf EXCEPT ![r] = Tail(@)]
    /\ Goto(r, "s_mean")
    /\ UNCHANGED <<prog, size, dim, comms, gatherBuf, W, mesh, M, zint, s_mean>>
    /\ UNCHANGED <<formVars, postVars>>

\* a quotient that yields a value instead of raising on a zero divisor
FloatDivNoRaise(a, b) == [ok |-> TRUE, val |-> Frac(a, IF b = 0 THEN 1 ELSE b)]

\* assemble(z_expr*ds(4))/assemble(1*ds(4)): a quotient of two Python floats,
\* which raises ZeroDivisionError when the divisor is zero
FloatDiv(a, b) == IF b = 0 THEN [ok |-> FALSE, val |-> Frac(0, 1)]
                  ELSE [ok |-> TRUE, val |-> Frac(a, b)]

\* lines 90-127: the body force, the boundary measure, s_mean, the Neumann
\* data, the Dirichlet conditions and the weak form; the exception of line
\* 110 ends the call before any of what follows it
StokesForm(r) ==
    /\ prog = "stokes" /\ pc[r] = "s_mean"
    /\ LET q == FloatDiv(zint, meas[4])
       IN  IF q.ok
           THEN /\ s_mean' = [s_mean EXCEPT ![r] = Num(q.val)]
                /\ Fw' = [Fw EXCEPT ![r] = weak_form(dim, meas, rate)]
                /\ Goto(r, "solve")
           ELSE /\ Fail(r, "ZeroDivisionError")
                /\ UNCHANGED <<s_mean, Fw>>
    /\ UNCHANGED <<prog, size, dim, commVars, W, mesh, M, h0, zint>>
    /\ UNCHANGED <<meas, rate, w, pen, postVars>>

\* lines 130-142: the external Newton solve returns, and stokes_solve returns
\* w, or the solver raises RuntimeError (no convergence)
StokesSolve(r) ==
    /\ prog = "stokes" /\ pc[r] = "solve"
    /\ \E converged \in BOOLEAN :
          IF converged
          THEN /\ w' = [w EXCEPT ![r] = [tag |-> "Function", val |-> 0]]
               /\ Goto(r, "returned")
          ELSE /\ Fail(r, "RuntimeError")
               /\ UNCHANGED w
    /\ UNCHANGED <<prog, size, dim, commVars, W, stokesVars, meas, rate, Fw, pen>>
    /\ UNCHANGED postVars

\* -------------------------------------- weak_form, Pi and dPi on their own
\* weak_form as stokes_solve calls it (line 127), on one process
FormBuild ==
    /\ prog = "form" /\ pc[0] = "weak_form"
    /\ Fw' = [Fw EXCEPT ![0] = weak_form(dim, meas, rate)]
    /\ Goto(0, "solve")
    /\ UNCHANGED <<prog, size, dim, commVars, W, stokesVars, meas, rate, w, pen>>
    /\ UNCHANGED postVars

\* the flux of u through each marker, for fluxes f3 and f4 through the bed
\* and the lake surface
FluxOf(f3, f4) == [k \in 1 .. 6 |-> IF k = 3 THEN f3 ELSE IF k = 4 THEN f4 ELSE 1]

\* Pi and dPi applied to a normal velocity, and the penalty the residual
\* applies there on markers 3 and 4 (line 48)
FormPenalty ==
    /\ prog = "form" /\ pc[0] = "solve"
    /\ \E un \in -MaxUn .. MaxUn :
          pen' = [set |-> TRUE, un |-> un, Pi |-> Pi(un), dPi |-> dPi(un),
                  bed |-> SumPenalty(Fw[0], 3, un),
                  lake |-> SumPenalty(Fw[0], 4, un)]
    /\ UNCHANGED <<prog, size, dim, pc, err, commVars, W, stokesVars, meas, rate, Fw, w>>
    /\ UNCHANGED postVars

\* solve(Fw == 0, w, ...), lines 130-132: the solver returns a w at which the
\* residual vanishes against every test function, qw among them
FormSolve ==
    /\ prog = "form" /\ pc[0] = "solve"
    /\ \E f3 \in -MaxUn .. MaxUn, f4 \in -MaxUn .. MaxUn :
          /\ FracEq(QwResidual(Fw[0], meas, FluxOf(f3, f4)), Frac(0, 1))
          /\ w' = [w EXCEPT ![0] = [tag |-> "Function", flux |-> FluxOf(f3, f4)]]
    /\ Goto(0, "returned")
    /\ UNCHANGED <<prog, size, dim, commVars, W, stokesVars, meas, rate, Fw, pen>>
    /\ UNCHANGED postVars

\* -------------------------------------------------------- post_process.py
\* the gathers of a step with the last one left out
GatherOrderSix == <<"h", "s", "wb", "xh", "yh", "xs">>

\* lines 27-34: the seven gathers of a step, in the order written
GatherOrder == <<"h", "s", "wb", "xh", "yh", "xs", "ys">>

NFields == Len(GatherOrder)

\* the non-root ranks issue the gathers of a step in the reverse order
PostFieldReversed(r, k) ==
    IF r = 0 THEN GatherOrder[k] ELSE GatherOrder[NFields + 1 - k]

\* the variable rank r hands to the k-th gather of a step
PostField(r, k) == GatherOrder[k]

\* line 25: the arrays get_fields returns on rank r at step i, one entry per
\* local node; entries are tagged with where they come from
LocalLen(r) == 1 + (r % 2)

get_fields(r, i, f) == [j \in 1 .. LocalLen(r) |-> <<r, i, f, j>>]

\* line 20
PostElement == MixedElement(<<P2, P2, P2>>, P1, R)

\* line 12: the next iteration of range(nt), or the end of the script
PostLoop(i) == IF i < NT THEN "read" ELSE "done"

\* lines 13-25: read the mesh, build W, read the solution into w, get the
\* fields.  Reading a solution saved from another function space is not
\* defined by the code: it may go through or raise.
PostRead(r) ==
    /\ prog = "post" /\ pc[r] = "read"
    /\ W' = [W EXCEPT ![r] = PostElement]
    /\ \E ok \in BOOLEAN :
          IF ok \/ PostElement = StokesElement(dim)
          THEN /\ Goto(r, "gather")
               /\ fld' = [fld EXCEPT ![r] = 1]
          ELSE /\ Fail(r, "RuntimeError")
               /\ UNCHANGED fld
    /\ UNCHANGED <<prog, size, dim, commVars, stokesVars, formVars, step, got, plotted>>

\* lines 36-48 for a rank that has its seven gather results: rank 0
\* concatenates each and calls plot_fields; then the loop goes on
PostPlot(r, g) ==
    IF r = 0
    THEN plotted' = Append(plotted,
                      [rank |-> r, i |-> step[r],
                       args |-> [k \in 1 .. NFields |-> Concatenate(g[k].rows)]])
    ELSE UNCHANGED plotted

PostEndStep(r, g) ==
    /\ PostPlot(r, g)
    /\ step' = [step EXCEPT ![r] = @ + 1]
    /\ Goto(r, PostLoop(step[r] + 1))

\* lines 27-34 on a non-root rank: one comm.gather(x,root=0); it hands the
\* local array over and returns None
PostGather(r) ==
    /\ prog = "post" /\ pc[r] = "gather"
    /\ LET k == fld[r]
           f == PostField(r, k)
           g == [got[r] EXCEPT ![k] = NoArray]
       IN  /\ Issue(r, Call("gather", f, step[r]))
           /\ IF r = 0
              THEN /\ Goto(r, "gather_wait")
                   /\ UNCHANGED <<gatherBuf, got, fld, step, plotted>>
              ELSE /\ gatherBuf' = [gatherBuf EXCEPT ![r] =
                                      Append(@, get_fields(r, step[r], f))]
                   /\ got' = [got EXCEPT ![r] = g]
                   /\ IF k < NFields
                      THEN /\ fld' = [fld EXCEPT ![r] = k + 1]
                           /\ UNCHANGED <<pc, err, step, plotted>>
                      ELSE /\ PostEndStep(r, g)
                           /\ UNCHANGED fld
    /\ UNCHANGED <<prog, size, dim, bcastBuf, W, stokesVars, formVars>>

\* lines 27-34 on rank 0: the gather returns the list of every rank's
\* contribution to this collective, in rank order
PostGatherReturn ==
    /\ prog = "post" /\ pc[0] = "gather_wait"
    /\ \A r \in NonRoot : gatherBuf[r] # << >>
    /\ LET k == fld[0]
           own == get_fields(0, step[0], PostField(0, k))
           g == [got[0] EXCEPT ![k] =
                   List([j \in 1 .. size |->
                           IF j = 1 THEN own ELSE Head(gatherBuf[j - 1])])]
       IN  /\ got' = [got EXCEPT ![0] = g]
           /\ gatherBuf' = [r \in Ranks |->
                              IF r = 0 THEN << >> ELSE Tail(gatherBuf[r])]
           /\ IF k < NFields
              THEN /\ fld' = [fld EXCEPT ![0] = k + 1]
                   /\ Goto(0, "gather")
                   /\ UNCHANGED <<step, plotted>>
              ELSE /\ PostEndStep(0, g)
                   /\ UNCHANGED fld
    /\ UNCHANGED <<prog, size, dim, comms, bcastBuf, W, stokesVars, formVars>>

\* ------------------------------------------------------------ the programs
Markers == 1 .. 6

\* the coordinates a mesh vertex can have
\* first coordinates: 0 is the side wall where h0 is taken, 1 the rest
XCoords == {0, 1}

Vertices == {<<x, y>> : x \in XCoords, y \in 1 .. MaxY}

NoFields == [k \in 1 .. NFields |-> [tag |-> "unbound", rows |-> << >>]]

Idle ==
    /\ pen = [set |-> FALSE]
    /\ plotted = << >>
    /\ err = [r \in Ranks |-> "none"]
    /\ comms = [r \in Ranks |-> << >>]
    /\ gatherBuf = [r \in Ranks |-> << >>]
    /\ bcastBuf = [r \in Ranks |-> << >>]
    /\ W = [r \in Ranks |-> [velocity |-> << >>]]
    /\ M = [r \in Ranks |-> [tag |-> "unbound", rows |-> << >>]]
    /\ h0 = [r \in Ranks |-> Unbound]
    /\ s_mean = [r \in Ranks |-> Unbound]
    /\ Fw = [r \in Ranks |-> << >>]
    /\ w = [r \in Ranks |-> Unbound]
    /\ step = [r \in Ranks |-> 0]
    /\ fld = [r \in Ranks |-> 0]
    /\ got = [r \in Ranks |-> NoFields]

\* every rank is about to run stokes_solve(mesh,t) on its part of the mesh
InitStokes ==
    /\ prog = "stokes"
    /\ size \in 1 .. MaxRanks
    /\ dim \in Dims
    /\ mesh \in [Ranks -> {<<v>> : v \in Vertices}]
    /\ \E m4 \in {0, MaxMeas} : meas = [k \in Markers |-> IF k = 4 THEN m4 ELSE 1]
    /\ zint = (IF meas[4] = 0 THEN 0 ELSE meas[4] + 1)
    /\ rate = MaxRate
    /\ pc = [r \in Ranks |-> "gather"]
    /\ Idle

\* weak_form is about to be called, with a non-empty ice-water boundary
InitForm ==
    /\ prog = "form"
    /\ size = 1
    /\ dim \in Dims
    /\ mesh = [r \in Ranks |-> << >>]
    /\ \E m3 \in 0 .. MaxMeas, m4 \in 1 .. MaxMeas :
          meas = [k \in Markers |-> IF k = 3 THEN m3 ELSE IF k = 4 THEN m4 ELSE 1]
    /\ zint = 0
    /\ rate \in -MaxRate .. MaxRate
    /\ pc = [r \in Ranks |-> "weak_form"]
    /\ Idle

\* every rank is about to run the post_process script
InitPost ==
    /\ prog = "post"
    /\ size \in 1 .. MaxRanks
    /\ dim \in Dims
    /\ mesh = [r \in Ranks |-> << >>]
    /\ meas = [k \in Markers |-> 1]
    /\ zint = 0
    /\ rate = 0
    /\ pc = [r \in Ranks |-> PostLoop(0)]
    /\ Idle

StokesStep(r) ==
    \/ StokesGather(r)
    \/ StokesBcast(r)
    \/ StokesBcastReturn(r)
    \/ StokesForm(r)
    \/ StokesSolve(r)

NextStokes ==
    \/ \E r \in Ranks : StokesGather(r)
    \/ StokesGatherReturn
    \/ StokesReduce
    \/ \E r \in Ranks : StokesBcast(r)
    \/ \E r \in Ranks : StokesBcastReturn(r)
    \/ \E r \in Ranks : StokesForm(r)
    \/ \E r \in Ranks : StokesSolve(r)

NextForm == FormBuild \/ FormPenalty \/ FormSolve

NextPost ==
    \/ \E r \in Ranks : PostRead(r)
    \/ \E r \in Ranks : PostGather(r)
    \/ PostGatherReturn

Init == InitStokes \/ InitPost

Next == NextStokes \/ NextPost

Spec == Init /\ [][Next]_vars

SpecStokes == InitStokes /\ [][NextStokes]_vars

SpecForm == InitForm /\ [][NextForm]_vars

SpecPost == InitPost /\ [][NextPost]_vars

\* every rank is a process of its own and keeps running: a step it can take
\* is eventually taken
RankStep(r) ==
    \/ (r \in Ranks /\ StokesStep(r))
    \/ (r = 0 /\ (StokesGatherReturn \/ StokesReduce))

FairStokes == SpecStokes /\ \A r \in 0 .. (MaxRanks - 1) : WF_vars(RankStep(r))

\* ------------------------------------------------------------ properties
Ops(cs) == [j \in 1 .. Len(cs) |-> cs[j].op]

IsPrefix(a, b) == Len(a) <= Len(b) /\ \A j \in 1 .. Len(a) : a[j] = b[j]

SetMax(S) == CHOOSE m \in S : \A x \in S : x <= m

\* the heights of the vertices of all ranks' local meshes with |x| < tol
AxisHeightSet ==
    {y \in 1 .. MaxY : \E r \in Ranks : \E j \in 1 .. Len(mesh[r]) :
        mesh[r][j][2] = y /\ mesh[r][j][1] < tol /\ -mesh[r][j][1] < tol}

HasAxisVertex == AxisHeightSet # {}

\* rank r has returned from comm.bcast (line 88)
PastBcast(r) ==
    \/ pc[r] \in {"s_mean", "solve", "returned"}
    \/ pc[r] = "failed" /\ err[r] \in {"ZeroDivisionError", "RuntimeError"}

\* rank r has executed line 110
PastMean(r) ==
    \/ pc[r] \in {"solve", "returned"}
    \/ pc[r] = "failed" /\ err[r] \in {"ZeroDivisionError", "RuntimeError"}

C4_SameGlobalH0 ==
    /\ (\A r \in Ranks : PastBcast(r)) =>
           \A r \in Ranks : h0[r] = Num(SetMax(AxisHeightSet))
    /\ \A r \in NonRoot :
           /\ pc[r] = "gather" => h0[r] = Unbound
           /\ pc[r] \in {"bcast", "bcast_wait"} => h0[r] = None
           /\ h0[r].tag = "num" => PastBcast(r) /\ h0[r] = h0[0]

\* C4: all of several ranks are past the broadcast and rank 0's own mesh has
\* no vertex with |x| < tol
C4_Witness ==
    /\ prog = "stokes" /\ size > 1
    /\ \A r \in Ranks : PastBcast(r)
    /\ AxisHeights(mesh[0]) = << >>

\* C7: every rank eventually returns from the broadcast of h0 if and only if
\* some vertex of the gathered mesh has |x| < tol; when none has, rank 0 ends
\* with the ValueError of np.max without having issued the broadcast and
\* every other rank stays blocked in the broadcast for ever.
C7_BcastIffAxisVertex ==
    /\ HasAxisVertex => <>(\A r \in Ranks : PastBcast(r))
    /\ ~HasAxisVertex =>
          /\ [](\A r \in Ranks : ~PastBcast(r))
          /\ <>[](/\ pc[0] = "failed" /\ err[0] = "ValueError"
                  /\ Ops(comms[0]) = <<"gather">>
                  /\ \A r \in NonRoot : pc[r] = "bcast_wait")

\* C7: rank 0 has failed in np.max and the other ranks wait in the broadcast
C7_Witness ==
    /\ prog = "stokes" /\ size > 1
    /\ pc[0] = "failed" /\ err[0] = "ValueError"
    /\ \A r \in NonRoot : pc[r] = "bcast_wait"

\* C9, as stated: with a zero measure of marker 4 stokes_solve ends on every
\* rank with the ZeroDivisionError of s_mean, before the weak form and the
\* solve; with a positive measure the solve is reached, so a rank that ends
\* with an exception does so in the solver.
C9_FailsOnlyByMeasure ==
    \A r \in Ranks :
        pc[r] = "failed" =>
            err[r] = (IF meas[4] = 0 THEN "ZeroDivisionError" ELSE "RuntimeError")

\* C9, amended: the claim holds of every rank that reaches line 110, that is,
\* rank 0 once it has computed h0 and any other rank once it has returned
\* from the broadcast.  With a zero measure of marker 4 such a rank ends there
\* with ZeroDivisionError, no weak form built, no solve called, no w
\* returned; with a positive measure s_mean is the integral of the elevation
\* over marker 4 divided by the measure, the weak form is built and the solve
\* is reached.
C9_MeanOrZeroDivision ==
    /\ [](\A r \in Ranks :
            /\ meas[4] = 0 =>
                  /\ pc[r] \notin {"solve", "returned"}
                  /\ err[r] # "RuntimeError"
                  /\ s_mean[r] = Unbound /\ Fw[r] = << >> /\ w[r] = Unbound
            /\ meas[4] # 0 =>
                  /\ err[r] # "ZeroDivisionError"
                  /\ PastMean(r) =>
                        /\ s_mean[r].tag = "num"
                        /\ FracEq(FracScale(s_mean[r].val, meas[4]), Frac(zint, 1))
                        /\ Fw[r] # << >>)
    /\ [][\A r \in Ranks :
            pc[r] = "s_mean" /\ pc'[r] # "s_mean" =>
                IF meas[4] = 0
                THEN pc'[r] = "failed" /\ err'[r] = "ZeroDivisionError"
                ELSE pc'[r] = "solve"]_vars

\* C9: among several ranks, one has ended with the ZeroDivisionError
C9_Witness ==
    /\ prog = "stokes" /\ size > 1 /\ meas[4] = 0
    /\ \E r \in NonRoot : pc[r] = "failed" /\ err[r] = "ZeroDivisionError"

\* the terms of the residual built by weak_form, once it is built
Built == prog = "form" /\ pc[0] \in {"solve", "returned"}

OnRegions(F, K) == SelectSeq(F, LAMBDA t : t.region \in K)

\* C2: the qw terms of the residual are integrated over exactly markers 3 and
\* 4, both with the integrand inner(u,nu) + Vdot/L0, L0 the total measure of
\* markers 3 and 4; their constant part integrates to exactly Vdot; at a zero
\* of the residual the flux of u through markers 3 and 4 sums to -Vdot; and
\* the momentum terms on markers 3 and 4 carry that same Vdot.
C2_VolumeConstraint ==
    Built =>
        LET qs == TermsOf(Fw[0], "qw")
            vs == SelectSeq(Fw[0], LAMBDA t : t.test = "v" /\ t.vol[1] # 0)
        IN  /\ Len(qs) = 2
            /\ {qs[j].region : j \in 1 .. Len(qs)} = {3, 4}
            /\ \A j \in 1 .. Len(qs) :
                  /\ qs[j].un = 1 /\ qs[j].scale = "1" /\ qs[j].dpi = 0
                  /\ qs[j].gl = 0 /\ qs[j].pw = 0 /\ qs[j].sig = 0
                  /\ FracEq(FracScale(qs[j].vol, meas[3] + meas[4]), Frac(rate, 1))
            /\ FracEq(QwResidual(Fw[0], meas, [k \in Markers |-> 0]), Frac(rate, 1))
            /\ pc[0] = "returned" => w[0].flux[3] + w[0].flux[4] = -rate
            /\ rate # 0 => {vs[j].region : j \in 1 .. Len(vs)} = {3, 4}
            /\ \A t \in {Fw[0][j] : j \in 1 .. Len(Fw[0])} :
                  t.test = "v" /\ t.region \in {3, 4} /\ t.kind = "inner(nu,v)" =>
                      t.vol[1] = rate /\ t.un = 1

\* C2: a solution was returned for a lake that changes volume over a bed of
\* positive measure
C2_Witness ==
    /\ Built /\ pc[0] = "returned"
    /\ rate # 0 /\ meas[3] > 0
    /\ w[0].flux[3] # 0

\* C3: dPi is 0 for un <= 0 and 2*un for un > 0, never negative; Pi is 0 for
\* un <= 0 and un^2 for un > 0; dPi is the derivative of Pi (Pi's difference
\* over [un, un+1] lies between dPi(un) and dPi(un+1), and away from the kink
\* the centred difference of the piecewise quadratic is exact); the residual
\* applies the penalty on marker 3 and never on marker 4.
C3_PenaltyOnlyOnPenetration ==
    /\ pen.set =>
          LET un == pen.un
          IN  /\ pen.dPi = (IF un <= 0 THEN 0 ELSE 2 * un)
              /\ pen.dPi >= 0
              /\ pen.Pi = (IF un <= 0 THEN 0 ELSE un * un)
              /\ pen.dPi <= Pi(un + 1) - pen.Pi
              /\ Pi(un + 1) - pen.Pi <= dPi(un + 1)
              /\ un # 0 => Pi(un + 1) - Pi(un - 1) = 2 * pen.dPi
              /\ pen.bed = pen.dPi
              /\ pen.lake = 0
    /\ Built =>
          /\ \A j \in 1 .. Len(Fw[0]) : Fw[0][j].dpi # 0 => Fw[0][j].region = 3
          /\ \E j \in 1 .. Len(Fw[0]) :
                Fw[0][j].dpi = 1 /\ Fw[0][j].region = 3 /\ Fw[0][j].test = "v"

\* C3: the penalty was evaluated at a penetrating velocity
C3_Witness ==
    /\ prog = "form" /\ pen.set
    /\ pen.un > 0 /\ pen.bed > 0 /\ pen.lake = 0

\* C6: the residual has terms on markers 5 and 6 if and only if dim # '2D',
\* then one cryostatic traction term on each; all its other terms are the
\* ones it has for any other value of dim.
C6_DimOnlySideWalls ==
    Built =>
        LET F == Fw[0]
            side == OnRegions(F, {5, 6})
        IN  /\ (side # << >>) <=> (dim # "2D")
            /\ dim # "2D" =>
                  /\ Len(side) = 2
                  /\ {side[j].region : j \in 1 .. 2} = {5, 6}
                  /\ \A j \in 1 .. 2 : side[j] = Plain("g_cryo*inner(nu,v)", "v", side[j].region)
            /\ \A d \in Dims :
                  OnRegions(F, 0 .. 4) = OnRegions(weak_form(d, meas, rate), 0 .. 4)
            /\ Len(OnRegions(F, 0 .. 4)) + Len(side) = Len(F)

\* C6: the residual was built with dim # '2D'
C6_Witness ==
    /\ Built /\ dim # "2D"
    /\ \E j \in 1 .. Len(Fw[0]) : Fw[0][j].region = 5

\* the concatenation, in rank order, of every rank's local array of field f
\* at step i
RECURSIVE InRankOrder(_, _, _)
InRankOrder(r, i, f) ==
    IF r >= size THEN << >> ELSE get_fields(r, i, f) \o InRankOrder(r + 1, i, f)

Sevenfold == <<"h", "s", "wb", "xh", "yh", "xs", "ys">>

\* C5: plot_fields is called once per time step, on rank 0 only, in
\* increasing order of i (the j-th call is for i = j-1, and nt calls are made
\* by the end), only after the seven gathers of the step have completed on
\* rank 0; each of its seven arrays is the concatenation in rank order of
\* every rank's local array of that field at that step; every rank issues the
\* gathers of a step in the order h, s, wb, xh, yh, xs, ys.
C5_PlotOncePerStep ==
    prog = "post" =>
        /\ \A j \in 1 .. Len(plotted) :
              /\ plotted[j].rank = 0
              /\ plotted[j].i = j - 1
              /\ \A k \in 1 .. 7 :
                    plotted[j].args[k] = InRankOrder(0, j - 1, Sevenfold[k])
        /\ Len(plotted) = step[0]
        /\ pc[0] = "done" => Len(plotted) = NT
        /\ 7 * Len(plotted) <=
              Len(comms[0]) - (IF pc[0] = "gather_wait" THEN 1 ELSE 0)
        /\ \A r \in Ranks : \A j \in 1 .. Len(comms[r]) :
              /\ comms[r][j].arg = Sevenfold[((j - 1) % 7) + 1]
              /\ comms[r][j].i = (j - 1) \div 7

\* C5: rank 0 has run the script to its end among several ranks
C5_Witness ==
    /\ prog = "post" /\ size > 1
    /\ pc[0] = "done" /\ Len(plotted) = NT

\* C8: for every dim, the mixed element post_process reads the solution into
\* is the one stokes_solve built for that dim: 2 velocity components of
\* degree 2 when dim = '2D' and 3 otherwise, one degree-1 pressure, one real.
C8_SameFunctionSpace ==
    prog = "post" =>
        \A r \in Ranks :
            W[r].velocity # << >> =>
                /\ W[r] = StokesElement(dim)
                /\ Len(W[r].velocity) = (IF dim = "2D" THEN 2 ELSE 3)

====
